---- MODULE Spec2Model ----
(***************************************************************************)
(* A model of the FEDWire tag codec and of the line-dispatch Reader of     *)
(* github.com/moov-io/wire: the tags LocalInstrument, Originator and       *)
(* FIPaymentMethodToBeneficiary (Parse, Validate, String), the Reader's    *)
(* Read loop with parseLine and its handlers, and the error list.          *)
(* Go strings are TLA+ strings; Go's s[a:b] is Slice(s, a, b).             *)
(***************************************************************************)
EXTENDS Integers, Sequences, FiniteSets, TLC

VARIABLES
    pc,                     \* position of Reader.Read: idle, scan, done, panic
    lines,                  \* the lines the scanner has delivered to the running call
    line,                   \* Reader.line
    lineNum,                \* Reader.lineNum
    tagName,                \* Reader.tagName
    currentFEDWireMessage,  \* Reader.currentFEDWireMessage
    errors,                 \* Reader.errors (base.ErrorList)
    File,                   \* Reader.File
    ret,                    \* what the calls of Read returned, in order: [file, err]
    cpc,                    \* position of the codec exercise
    ctag,                   \* the tag value given to Validate and String
    cmode,                  \* TRUE: String(true) (compact), FALSE: String()
    cstr,                   \* the record String produced
    cres,                   \* the result of Parse on a fresh tag: [t, err]
    cval,                   \* the result of Validate on the tag value
    cfld                    \* what Parse's first variable-field decode gave

readerVars == <<pc, lines, line, lineNum, tagName, currentFEDWireMessage, errors, File, ret>>
codecVars == <<cpc, ctag, cmode, cstr, cres, cval, cfld>>
vars == <<pc, lines, line, lineNum, tagName, currentFEDWireMessage, errors, File, ret,
          cpc, ctag, cmode, cstr, cres, cval, cfld>>

----------------------------------------------------------------------------
(* Bounds of the model *)

\* the largest number of lines one input holds
MaxLines == 2

\* the largest number of calls of Read on one Reader
MaxReads == 2

----------------------------------------------------------------------------
(* Go string helpers *)

Min(a, b) == IF a < b THEN a ELSE b

\* s[a:b]
Slice(s, a, b) == SubSeq(s, a + 1, b)

\* s[a:]
SliceFrom(s, a) == SubSeq(s, a + 1, Len(s))

\* s[i:i+1]
CharAt(s, i) == SubSeq(s, i + 1, i + 1)

\* strings.Index(s, c) for a one-character c: 0-based, -1 when absent
Index(s, c) ==
    LET hits == {i \in 1..Len(s) : SubSeq(s, i, i) = c}
    IN IF hits = {} THEN -1
       ELSE (CHOOSE i \in hits : \A j \in hits : i <= j) - 1

RECURSIVE Spaces(_)
Spaces(n) == IF n <= 0 THEN "" ELSE " " \o Spaces(n - 1)

RECURSIVE Repeat(_, _)
Repeat(c, n) == IF n <= 0 THEN "" ELSE c \o Repeat(c, n - 1)

RECURSIVE TrimRight(_)
TrimRight(s) ==
    IF Len(s) > 0 /\ CharAt(s, Len(s) - 1) = " "
    THEN TrimRight(Slice(s, 0, Len(s) - 1))
    ELSE s

RECURSIVE TrimLeft(_)
TrimLeft(s) ==
    IF Len(s) > 0 /\ CharAt(s, 0) = " " THEN TrimLeft(SliceFrom(s, 1)) ELSE s

\* strings.TrimSpace
TrimSpace(s) == TrimLeft(TrimRight(s))

----------------------------------------------------------------------------
(* Errors.  Every error value has the same shape. *)

Nil == [kind |-> "nil", field |-> "", required |-> 0, actual |-> 0, value |-> ""]

NewTagMinLengthErr(required, actual) ==
    [kind |-> "TagMinLengthError", field |-> "", required |-> required,
     actual |-> actual, value |-> ""]

NewTagMaxLengthErr ==
    [kind |-> "TagMaxLengthError", field |-> "", required |-> 0, actual |-> 0, value |-> ""]

NewTagWrongLengthErr(required, actual) ==
    [kind |-> "TagWrongLengthError", field |-> "", required |-> required,
     actual |-> actual, value |-> ""]

NewErrInvalidTag(tag) ==
    [kind |-> "InvalidTagError", field |-> "", required |-> 0, actual |-> 0, value |-> tag]

\* fieldError(field, err, value): err wrapped with the field's name and value
fieldError(field, kind, value) ==
    [kind |-> kind, field |-> field, required |-> 0, actual |-> 0, value |-> value]

ErrValidTagForType == "ErrValidTagForType"
ErrInvalidProperty == "ErrInvalidProperty"
ErrFieldRequired == "ErrFieldRequired"
ErrFieldInclusion == "ErrFieldInclusion"
ErrNonAlphanumeric == "ErrNonAlphanumeric"
ErrLocalInstrumentCode == "ErrLocalInstrumentCode"
ErrIdentificationCode == "ErrIdentificationCode"

----------------------------------------------------------------------------
(* Tag type codes and literals *)

TagMessageDisposition == "{1100}"
TagOutputMessageAccountabilityData == "{1120}"
TagErrorWire == "{1130}"
TagSenderSupplied == "{1500}"
TagTypeSubType == "{1510}"
TagInputMessageAccountabilityData == "{1520}"
TagAmount == "{2000}"
TagBusinessFunctionCode == "{3600}"
TagLocalInstrument == "{3610}"
TagCharges == "{3700}"
TagOriginator == "{5000}"
TagFIPaymentMethodToBeneficiary == "{6420}"
ProprietaryLocalInstrumentCode == "PROP"
PaymentMethod == "CHECK"

----------------------------------------------------------------------------
(* Field codec (converters) *)

\* parseStringField: the field's characters without the surrounding padding
parseStringField(r) == TrimSpace(r)

\* parseVariableStringField(r, maxLen) -> (got, size, err): an empty input is an
\* omitted field; the value ends at the first "*" found within maxLen characters
\* or at maxLen, and a "*" standing right after the value is consumed with it.
parseVariableStringField(r, maxLen) ==
    IF Len(r) = 0 THEN [value |-> "", read |-> 0, err |-> Nil]
    ELSE LET delimiterIndex == Index(r, "*")
             limit == Min(Len(r), maxLen)
             endIndex == IF delimiterIndex > -1 /\ delimiterIndex < limit
                         THEN delimiterIndex ELSE limit
             hasDelimiter == endIndex < Len(r) /\ CharAt(r, endIndex) = "*"
         IN [value |-> parseStringField(Slice(r, 0, endIndex)),
             read |-> IF hasDelimiter THEN endIndex + 1 ELSE endIndex,
             err |-> Nil]

\* alphaField(s, max): s right-padded with spaces to max characters
alphaField(s, max) == s \o Spaces(max - Len(s))

\* alphaVariableField(s, max, delimiter): s and the terminator when compact,
\* the padded field otherwise
alphaVariableField(s, max, delimiter) ==
    IF delimiter THEN s \o "*" ELSE alphaField(s, max)

\* parseFirstOption(options): the compact flag, false when no option is given
parseFirstOption(options) == Len(options) > 0 /\ options[1]

\* stripDelimiters: a trailing run of terminators is cut down to one
RECURSIVE stripDelimiters(_)
stripDelimiters(data) ==
    IF Len(data) >= 2 /\ Slice(data, Len(data) - 2, Len(data)) = "**"
    THEN stripDelimiters(Slice(data, 0, Len(data) - 1))
    ELSE data


\* the decode of a variable field as a Parse calls it, one character late:
\* parseVariableStringField(record[length+1:], maxLen)
variableFieldSkewed(record, length, maxLen) ==
    parseVariableStringField(SliceFrom(record, length + 1), maxLen)

\* value, read, err := parseVariableStringField(record[length:], maxLen)
variableField(record, length, maxLen) ==
    parseVariableStringField(SliceFrom(record, length), maxLen)

\* One variable field of a Parse, as its code runs it on the decode state
\* st = [t, length, err]: value, read, err := parseVariableStringField(
\* record[length:], maxLen); on err return fieldError(errField, err); else store
\* the value in t[field] and add read to length.  storeFirst tells the form that
\* assigns the field before it tests err.
parseVariableInto(st, record, maxLen, field, errField, storeFirst) ==
    IF st.err # Nil THEN st
    ELSE LET f == variableField(record, st.length, maxLen)
         IN IF f.err # Nil
            THEN [t |-> IF storeFirst THEN [st.t EXCEPT ![field] = f.value] ELSE st.t,
                  length |-> st.length,
                  err |-> fieldError(errField, f.err.kind, "")]
            ELSE [t |-> [st.t EXCEPT ![field] = f.value],
                  length |-> st.length + f.read,
                  err |-> Nil]

\* what parseVariableStringField returns when it fails: no value, nothing
\* consumed, and the error of an input too short for the read
variableFieldFailure == [value |-> "", read |-> 0, err |-> NewTagMinLengthErr(1, 0)]

\* value, read, err := parseVariableStringField(record[length:], maxLen) and the
\* statements after it, where the decode may fail on an input with no character
\* left (fails) instead of taking the field as omitted
parseVariableFault(st, record, maxLen, field, errField, storeFirst, fails) ==
    IF st.err # Nil THEN st
    ELSE LET f == IF fails /\ SliceFrom(record, st.length) = ""
                  THEN variableFieldFailure
                  ELSE variableField(record, st.length, maxLen)
         IN IF f.err # Nil
            THEN [t |-> IF storeFirst THEN [st.t EXCEPT ![field] = f.value] ELSE st.t,
                  length |-> st.length,
                  err |-> fieldError(errField, f.err.kind, "")]
            ELSE [t |-> [st.t EXCEPT ![field] = f.value],
                  length |-> st.length + f.read,
                  err |-> Nil]

\* checkLength with the test weakened to len(record) < length: a surplus passes
checkLengthLax(st, record) ==
    IF st.err # Nil THEN [t |-> st.t, err |-> st.err]
    ELSE IF Len(record) < st.length THEN [t |-> st.t, err |-> NewTagMaxLengthErr]
    ELSE [t |-> st.t, err |-> Nil]

\* The end of a Parse: if len(record) != length { return NewTagMaxLengthErr() }
checkLength(st, record) ==
    IF st.err # Nil THEN [t |-> st.t, err |-> st.err]
    ELSE IF Len(record) # st.length THEN [t |-> st.t, err |-> NewTagMaxLengthErr]
    ELSE [t |-> st.t, err |-> Nil]

----------------------------------------------------------------------------
(* Validators *)

AlphanumericChars ==
    {"A", "B", "C", "D", "E", "F", "G", "H", "I", "J", "K", "L", "M", "N", "O", "P",
     "Q", "R", "S", "T", "U", "V", "W", "X", "Y", "Z",
     "0", "1", "2", "3", "4", "5", "6", "7", "8", "9", " ", ",", ".", "-", "/"}

isAlphanumeric(s) ==
    IF \A i \in 1..Len(s) : SubSeq(s, i, i) \in AlphanumericChars
    THEN "nil" ELSE ErrNonAlphanumeric

isLocalInstrumentCode(code) ==
    IF code \in {"ANSI", "COVS", "GXML", "IXML", "NARR", "PROP", "RMTS", "RRMT",
                 "S820", "SWIF", "UEDI"}
    THEN "nil" ELSE ErrLocalInstrumentCode

isIdentificationCode(code) ==
    IF code \in {"B", "C", "D", "F", "U", "1", "2", "3", "4", "5", "9"}
    THEN "nil" ELSE ErrIdentificationCode

----------------------------------------------------------------------------
(* LocalInstrument *)

\* new(LocalInstrument) / &LocalInstrument{}
ZeroLocalInstrument == [tag |-> "", LocalInstrumentCode |-> "", ProprietaryCode |-> ""]

NewLocalInstrument == [ZeroLocalInstrument EXCEPT !.tag = TagLocalInstrument]

\* Parse: the receiver after the call and the error returned
\* Parse that tests the tag code and the LocalInstrumentCode it has decoded
LocalInstrumentParseStrict(li, record) ==
    IF Len(record) < 6 THEN [t |-> li, err |-> NewTagMinLengthErr(6, Len(record))]
    ELSE IF Slice(record, 0, 6) # TagLocalInstrument
         THEN [t |-> li, err |-> fieldError("tag", ErrValidTagForType, Slice(record, 0, 6))]
    ELSE
    LET s0 == [t |-> [li EXCEPT !.tag = Slice(record, 0, 6)], length |-> 6, err |-> Nil]
        s1 == parseVariableInto(s0, record, 4, "LocalInstrumentCode", "SwiftFieldTag", FALSE)
        s2 == parseVariableInto(s1, record, 35, "ProprietaryCode", "ProprietaryCode", FALSE)
    IN IF isLocalInstrumentCode(s1.t.LocalInstrumentCode) # "nil"
       THEN [t |-> s1.t,
             err |-> fieldError("LocalInstrumentCode", ErrLocalInstrumentCode,
                                s1.t.LocalInstrumentCode)]
       ELSE checkLength(s2, record)

LocalInstrumentParse(li, record) ==
    IF Len(record) < 6 THEN [t |-> li, err |-> NewTagMinLengthErr(6, Len(record))]
    ELSE
    LET s0 == [t |-> [li EXCEPT !.tag = Slice(record, 0, 6)], length |-> 6, err |-> Nil]
        s1 == parseVariableInto(s0, record, 4, "LocalInstrumentCode", "SwiftFieldTag", FALSE)
        s2 == parseVariableInto(s1, record, 35, "ProprietaryCode", "ProprietaryCode", FALSE)
    IN checkLength(s2, record)

\* Parse where the decode of variable field number fault fails if it can
LocalInstrumentParseFault(li, record, fault) ==
    IF Len(record) < 6 THEN [t |-> li, err |-> NewTagMinLengthErr(6, Len(record))]
    ELSE
    LET s0 == [t |-> [li EXCEPT !.tag = Slice(record, 0, 6)], length |-> 6, err |-> Nil]
        s1 == parseVariableFault(s0, record, 4, "LocalInstrumentCode", "SwiftFieldTag",
                                 FALSE, fault = 1)
        s2 == parseVariableFault(s1, record, 35, "ProprietaryCode", "ProprietaryCode",
                                 FALSE, fault = 2)
    IN checkLength(s2, record)

LocalInstrumentCodeField(li, options) ==
    alphaVariableField(li.LocalInstrumentCode, 4, parseFirstOption(options))

ProprietaryCodeField(li, options) ==
    alphaVariableField(li.ProprietaryCode, 35, parseFirstOption(options))

LocalInstrumentString(li, options) ==
    LET buf == li.tag \o LocalInstrumentCodeField(li, options)
                      \o ProprietaryCodeField(li, options)
    IN IF parseFirstOption(options) THEN stripDelimiters(buf) ELSE buf

\* fieldInclusion without the test of LocalInstrumentCode
LocalInstrumentFieldInclusionAny(li) ==
    IF li.ProprietaryCode # ""
    THEN fieldError("ProprietaryCode", ErrInvalidProperty, li.ProprietaryCode)
    ELSE Nil

LocalInstrumentFieldInclusion(li) ==
    IF li.LocalInstrumentCode # ProprietaryLocalInstrumentCode /\ li.ProprietaryCode # ""
    THEN fieldError("ProprietaryCode", ErrInvalidProperty, li.ProprietaryCode)
    ELSE Nil

\* Validate with the tag code tested before the field inclusion
LocalInstrumentValidateTagFirst(li) ==
    IF li.tag # TagLocalInstrument
    THEN fieldError("tag", ErrValidTagForType, li.tag)
    ELSE IF LocalInstrumentFieldInclusion(li) # Nil THEN LocalInstrumentFieldInclusion(li)
    ELSE IF isLocalInstrumentCode(li.LocalInstrumentCode) # "nil"
         THEN fieldError("LocalInstrumentCode", isLocalInstrumentCode(li.LocalInstrumentCode),
                         li.LocalInstrumentCode)
    ELSE IF isAlphanumeric(li.ProprietaryCode) # "nil"
         THEN fieldError("ProprietaryCode", isAlphanumeric(li.ProprietaryCode),
                         li.ProprietaryCode)
    ELSE Nil

LocalInstrumentValidate(li) ==
    IF LocalInstrumentFieldInclusion(li) # Nil THEN LocalInstrumentFieldInclusion(li)
    ELSE IF li.tag # TagLocalInstrument
         THEN fieldError("tag", ErrValidTagForType, li.tag)
    ELSE IF isLocalInstrumentCode(li.LocalInstrumentCode) # "nil"
         THEN fieldError("LocalInstrumentCode", isLocalInstrumentCode(li.LocalInstrumentCode),
                         li.LocalInstrumentCode)
    ELSE IF isAlphanumeric(li.ProprietaryCode) # "nil"
         THEN fieldError("ProprietaryCode", isAlphanumeric(li.ProprietaryCode),
                         li.ProprietaryCode)
    ELSE Nil

----------------------------------------------------------------------------
(* Originator (Personal and Address flattened into the tag) *)

ZeroOriginator ==
    [tag |-> "", IdentificationCode |-> "", Identifier |-> "", Name |-> "",
     AddressLineOne |-> "", AddressLineTwo |-> "", AddressLineThree |-> ""]

NewOriginator == [ZeroOriginator EXCEPT !.tag = TagOriginator]

\* Parse with o.tag = record[:6] moved before the test of the minimum length
OriginatorParseTagFirst(o, record) ==
    IF Len(record) < 9
    THEN [t |-> [o EXCEPT !.tag = Slice(record, 0, 6)],
          err |-> NewTagMinLengthErr(9, Len(record))]
    ELSE
    LET s0 == [t |-> [o EXCEPT !.tag = Slice(record, 0, 6),
                               !.IdentificationCode = parseStringField(Slice(record, 6, 7))],
               length |-> 7, err |-> Nil]
        s1 == parseVariableInto(s0, record, 34, "Identifier", "Identifier", FALSE)
        s2 == parseVariableInto(s1, record, 35, "Name", "Name", FALSE)
        s3 == parseVariableInto(s2, record, 35, "AddressLineOne", "AddressLineOne", FALSE)
        s4 == parseVariableInto(s3, record, 35, "AddressLineTwo", "AddressLineTwo", FALSE)
        s5 == parseVariableInto(s4, record, 35, "AddressLineThree", "AddressLineThree", FALSE)
    IN checkLength(s5, record)

OriginatorParse(o, record) ==
    IF Len(record) < 9 THEN [t |-> o, err |-> NewTagMinLengthErr(9, Len(record))]
    ELSE
    LET s0 == [t |-> [o EXCEPT !.tag = Slice(record, 0, 6),
                               !.IdentificationCode = parseStringField(Slice(record, 6, 7))],
               length |-> 7, err |-> Nil]
        s1 == parseVariableInto(s0, record, 34, "Identifier", "Identifier", FALSE)
        s2 == parseVariableInto(s1, record, 35, "Name", "Name", FALSE)
        s3 == parseVariableInto(s2, record, 35, "AddressLineOne", "AddressLineOne", FALSE)
        s4 == parseVariableInto(s3, record, 35, "AddressLineTwo", "AddressLineTwo", FALSE)
        s5 == parseVariableInto(s4, record, 35, "AddressLineThree", "AddressLineThree", FALSE)
    IN checkLength(s5, record)

\* Parse where the decode of variable field number fault fails if it can
OriginatorParseFault(o, record, fault) ==
    IF Len(record) < 9 THEN [t |-> o, err |-> NewTagMinLengthErr(9, Len(record))]
    ELSE
    LET s0 == [t |-> [o EXCEPT !.tag = Slice(record, 0, 6),
                               !.IdentificationCode = parseStringField(Slice(record, 6, 7))],
               length |-> 7, err |-> Nil]
        s1 == parseVariableFault(s0, record, 34, "Identifier", "Identifier", FALSE, fault = 1)
        s2 == parseVariableFault(s1, record, 35, "Name", "Name", FALSE, fault = 2)
        s3 == parseVariableFault(s2, record, 35, "AddressLineOne", "AddressLineOne",
                                 FALSE, fault = 3)
        s4 == parseVariableFault(s3, record, 35, "AddressLineTwo", "AddressLineTwo",
                                 FALSE, fault = 4)
        s5 == parseVariableFault(s4, record, 35, "AddressLineThree", "AddressLineThree",
                                 FALSE, fault = 5)
    IN checkLength(s5, record)

IdentificationCodeField(o) == alphaField(o.IdentificationCode, 1)

IdentifierField(o, options) ==
    alphaVariableField(o.Identifier, 34, parseFirstOption(options))

NameField(o, options) == alphaVariableField(o.Name, 35, parseFirstOption(options))

AddressLineOneField(o, options) ==
    alphaVariableField(o.AddressLineOne, 35, parseFirstOption(options))

AddressLineTwoField(o, options) ==
    alphaVariableField(o.AddressLineTwo, 35, parseFirstOption(options))

AddressLineThreeField(o, options) ==
    alphaVariableField(o.AddressLineThree, 35, parseFirstOption(options))

OriginatorString(o, options) ==
    LET buf == o.tag \o IdentificationCodeField(o) \o IdentifierField(o, options)
                     \o NameField(o, options) \o AddressLineOneField(o, options)
                     \o AddressLineTwoField(o, options)
                     \o AddressLineThreeField(o, options)
    IN IF parseFirstOption(options) THEN stripDelimiters(buf) ELSE buf

\* fieldInclusion with its first rule only
OriginatorFieldInclusionOneWay(o) ==
    IF o.IdentificationCode # "" /\ o.Identifier = ""
    THEN fieldError("Identifier", ErrFieldRequired, "")
    ELSE Nil

OriginatorFieldInclusion(o) ==
    IF o.IdentificationCode # "" /\ o.Identifier = ""
    THEN fieldError("Identifier", ErrFieldRequired, "")
    ELSE IF o.IdentificationCode = "" /\ o.Identifier # ""
         THEN fieldError("IdentificationCode", ErrFieldRequired, "")
    ELSE Nil

OriginatorValidate(o) ==
    IF OriginatorFieldInclusion(o) # Nil THEN OriginatorFieldInclusion(o)
    ELSE IF o.tag # TagOriginator THEN fieldError("tag", ErrValidTagForType, o.tag)
    ELSE IF isIdentificationCode(o.IdentificationCode) # "nil"
         THEN fieldError("IdentificationCode", isIdentificationCode(o.IdentificationCode),
                         o.IdentificationCode)
    ELSE IF isAlphanumeric(o.Identifier) # "nil"
         THEN fieldError("Identifier", isAlphanumeric(o.Identifier), o.Identifier)
    ELSE IF isAlphanumeric(o.Name) # "nil"
         THEN fieldError("Name", isAlphanumeric(o.Name), o.Name)
    ELSE IF isAlphanumeric(o.AddressLineOne) # "nil"
         THEN fieldError("AddressLineOne", isAlphanumeric(o.AddressLineOne),
                         o.AddressLineOne)
    ELSE IF isAlphanumeric(o.AddressLineTwo) # "nil"
         THEN fieldError("AddressLineTwo", isAlphanumeric(o.AddressLineTwo),
                         o.AddressLineTwo)
    ELSE IF isAlphanumeric(o.AddressLineThree) # "nil"
         THEN fieldError("AddressLineThree", isAlphanumeric(o.AddressLineThree),
                         o.AddressLineThree)
    ELSE Nil

----------------------------------------------------------------------------
(* FIPaymentMethodToBeneficiary *)

ZeroFIPaymentMethodToBeneficiary ==
    [tag |-> "", PaymentMethod |-> "", AdditionalInformation |-> ""]

NewFIPaymentMethodToBeneficiary ==
    [tag |-> TagFIPaymentMethodToBeneficiary, PaymentMethod |-> "CHECK",
     AdditionalInformation |-> ""]

FIPaymentMethodToBeneficiaryParse(pm, record) ==
    IF Len(record) < 11 THEN [t |-> pm, err |-> NewTagMinLengthErr(11, Len(record))]
    ELSE
    LET s0 == [t |-> [pm EXCEPT !.tag = Slice(record, 0, 6),
                                !.PaymentMethod = parseStringField(Slice(record, 6, 11))],
               length |-> 11, err |-> Nil]
        s1 == parseVariableInto(s0, record, 30, "AdditionalInformation",
                                "AdditionalInformation", TRUE)
    IN checkLength(s1, record)

PaymentMethodField(pm) == alphaField(pm.PaymentMethod, 5)

AdditionalInformationField(pm, options) ==
    alphaVariableField(pm.AdditionalInformation, 30, parseFirstOption(options))

FIPaymentMethodToBeneficiaryString(pm, options) ==
    pm.tag \o PaymentMethodField(pm) \o AdditionalInformationField(pm, options)

FIPaymentMethodToBeneficiaryFieldInclusion(pm) ==
    IF pm.PaymentMethod # PaymentMethod
    THEN fieldError("PaymentMethod", ErrFieldInclusion, pm.PaymentMethod)
    ELSE Nil

\* Validate with the test of the tag code moved before fieldInclusion
FIPaymentMethodToBeneficiaryValidateTagFirst(pm) ==
    IF pm.tag # TagFIPaymentMethodToBeneficiary
    THEN fieldError("tag", ErrValidTagForType, pm.tag)
    ELSE IF FIPaymentMethodToBeneficiaryFieldInclusion(pm) # Nil
         THEN FIPaymentMethodToBeneficiaryFieldInclusion(pm)
    ELSE IF isAlphanumeric(pm.AdditionalInformation) # "nil"
         THEN fieldError("AdditionalInformation", isAlphanumeric(pm.AdditionalInformation),
                         pm.AdditionalInformation)
    ELSE Nil

FIPaymentMethodToBeneficiaryValidate(pm) ==
    IF FIPaymentMethodToBeneficiaryFieldInclusion(pm) # Nil
    THEN FIPaymentMethodToBeneficiaryFieldInclusion(pm)
    ELSE IF pm.tag # TagFIPaymentMethodToBeneficiary
         THEN fieldError("tag", ErrValidTagForType, pm.tag)
    ELSE IF isAlphanumeric(pm.AdditionalInformation) # "nil"
         THEN fieldError("AdditionalInformation", isAlphanumeric(pm.AdditionalInformation),
                         pm.AdditionalInformation)
    ELSE Nil

----------------------------------------------------------------------------
(* SenderSupplied: a fixed-only tag of 18 characters *)

ZeroSenderSupplied ==
    [tag |-> "", FormatVersion |-> "", UserRequestCorrelation |-> "",
     TestProductionCode |-> "", MessageDuplicationCode |-> ""]

SenderSuppliedParse(ss, record) ==
    IF Len(record) # 18 THEN [t |-> ss, err |-> NewTagWrongLengthErr(18, Len(record))]
    ELSE [t |-> [tag |-> Slice(record, 0, 6),
                 FormatVersion |-> parseStringField(Slice(record, 6, 8)),
                 UserRequestCorrelation |-> parseStringField(Slice(record, 8, 16)),
                 TestProductionCode |-> parseStringField(Slice(record, 16, 17)),
                 MessageDuplicationCode |-> parseStringField(Slice(record, 17, 18))],
          err |-> Nil]

SenderSuppliedValidate(ss) ==
    IF ss.UserRequestCorrelation = ""
    THEN fieldError("UserRequestCorrelation", ErrFieldRequired, "")
    ELSE IF ss.tag # TagSenderSupplied THEN fieldError("tag", ErrValidTagForType, ss.tag)
    ELSE IF ss.FormatVersion # "30"
         THEN fieldError("FormatVersion", "ErrFormatVersion", ss.FormatVersion)
    ELSE IF isAlphanumeric(ss.UserRequestCorrelation) # "nil"
         THEN fieldError("UserRequestCorrelation", isAlphanumeric(ss.UserRequestCorrelation),
                         ss.UserRequestCorrelation)
    ELSE IF ss.TestProductionCode \notin {"T", "P"}
         THEN fieldError("TestProductionCode", "ErrTestProductionCode",
                         ss.TestProductionCode)
    ELSE IF ss.MessageDuplicationCode \notin {"", "P"}
         THEN fieldError("MessageDuplicationCode", "ErrMessageDuplicationCode",
                         ss.MessageDuplicationCode)
    ELSE Nil

----------------------------------------------------------------------------
(* The other tags the Reader handles here: TypeSubType,                     *)
(* InputMessageAccountabilityData, Amount and BusinessFunctionCode, of a     *)
(* fixed total length, and MessageDisposition, OutputMessageAccountability-  *)
(* Data and ErrorWire.  Their fields are kept as one body.                   *)

ZeroBodyTag == [tag |-> "", body |-> ""]

\* Parse of a fixed-only tag of size characters
FixedTagParse(t, record, size) ==
    IF Len(record) # size THEN [t |-> t, err |-> NewTagWrongLengthErr(size, Len(record))]
    ELSE [t |-> [tag |-> Slice(record, 0, 6), body |-> SliceFrom(record, 6)], err |-> Nil]

\* Parse of MessageDisposition, OutputMessageAccountabilityData, ErrorWire
BodyTagParse(t, record) ==
    IF Len(record) < 6 THEN [t |-> t, err |-> NewTagMinLengthErr(6, Len(record))]
    ELSE [t |-> [tag |-> Slice(record, 0, 6), body |-> SliceFrom(record, 6)], err |-> Nil]

\* Validate: the tag code, then the charset of the fields
BodyTagValidate(t, code) ==
    IF t.tag # code THEN fieldError("tag", ErrValidTagForType, t.tag)
    ELSE IF isAlphanumeric(t.body) # "nil"
         THEN fieldError("body", isAlphanumeric(t.body), t.body)
    ELSE Nil

----------------------------------------------------------------------------
(* Charges: ChargeDetails (1 character) and four variable fields of 15 *)

ZeroCharges ==
    [tag |-> "", ChargeDetails |-> "", SendersChargesOne |-> "",
     SendersChargesTwo |-> "", SendersChargesThree |-> "", SendersChargesFour |-> ""]

ChargesParse(c, record) ==
    IF Len(record) < 7 THEN [t |-> c, err |-> NewTagMinLengthErr(7, Len(record))]
    ELSE
    LET s0 == [t |-> [c EXCEPT !.tag = Slice(record, 0, 6),
                               !.ChargeDetails = parseStringField(Slice(record, 6, 7))],
               length |-> 7, err |-> Nil]
        s1 == parseVariableInto(s0, record, 15, "SendersChargesOne", "SendersChargesOne", FALSE)
        s2 == parseVariableInto(s1, record, 15, "SendersChargesTwo", "SendersChargesTwo", FALSE)
        s3 == parseVariableInto(s2, record, 15, "SendersChargesThree",
                                "SendersChargesThree", FALSE)
        s4 == parseVariableInto(s3, record, 15, "SendersChargesFour",
                                "SendersChargesFour", FALSE)
    IN checkLength(s4, record)

\* String: the tag code, ChargeDetails and the four variable fields; the compact
\* form ends in one terminator
ChargesString(c, options) ==
    LET buf == c.tag \o alphaField(c.ChargeDetails, 1)
                     \o alphaVariableField(c.SendersChargesOne, 15, parseFirstOption(options))
                     \o alphaVariableField(c.SendersChargesTwo, 15, parseFirstOption(options))
                     \o alphaVariableField(c.SendersChargesThree, 15, parseFirstOption(options))
                     \o alphaVariableField(c.SendersChargesFour, 15, parseFirstOption(options))
    IN IF parseFirstOption(options) THEN stripDelimiters(buf) ELSE buf

ChargesValidate(c) ==
    IF c.tag # TagCharges THEN fieldError("tag", ErrValidTagForType, c.tag)
    ELSE IF c.ChargeDetails \notin {"B", "S"}
         THEN fieldError("ChargeDetails", "ErrChargeDetails", c.ChargeDetails)
    ELSE Nil

----------------------------------------------------------------------------
(* base.ErrorList and base.ParseError.  An entry of the list is a ParseError *)
(* (Line, Record, Err), a bare error (Err), or an ErrorList value (list).   *)

NilEntry == [type |-> "nil", Line |-> 0, Record |-> "", Err |-> Nil, list |-> <<>>]

\* a bare error value as an error interface value
Bare(err) ==
    IF err = Nil THEN NilEntry
    ELSE [type |-> "error", Line |-> 0, Record |-> "", Err |-> err, list |-> <<>>]

\* the ErrorList itself as an error interface value: the slice as it is now
AsError(list) ==
    [type |-> "ErrorList", Line |-> 0, Record |-> "", Err |-> Nil, list |-> list]

\* ErrorList.Add
Add(list, e) == Append(list, e)

\* ErrorList.Empty
Empty(list) == Len(list) = 0

----------------------------------------------------------------------------
(* FEDWireMessage and File.  A tag pointer is <<>> (nil) or <<tag>>. *)

NewFEDWireMessage ==
    [MessageDisposition |-> <<>>, OutputMessageAccountabilityData |-> <<>>,
     ErrorWire |-> <<>>, SenderSupplied |-> <<>>, TypeSubType |-> <<>>,
     InputMessageAccountabilityData |-> <<>>, Amount |-> <<>>,
     BusinessFunctionCode |-> <<>>, LocalInstrument |-> <<>>, Charges |-> <<>>,
     Originator |-> <<>>, FIPaymentMethodToBeneficiary |-> <<>>]

SetTag(fwm, type, t) == [fwm EXCEPT ![type] = <<t>>]

\* File.AddFEDWireMessage
AddFEDWireMessage(f, fwm) == Append(f, fwm)

----------------------------------------------------------------------------
(* Reader.  A handler takes the reader's fields r = [line, lineNum, tagName, *)
(* errors, cur] and gives the fields after the call and the error returned. *)

parseError(r, e) ==
    IF e.type = "nil" THEN NilEntry
    ELSE IF e.type = "ParseError" THEN e
    ELSE [type |-> "ParseError", Line |-> r.lineNum, Record |-> r.tagName,
          Err |-> e.Err, list |-> <<>>]

\* the end of a handler that drops the stored tag of the type when Validate fails
validateAndSetClear(r, type, t, verr) ==
    IF verr # Nil
    THEN [r |-> [r EXCEPT !.cur[type] = <<>>], err |-> parseError(r, Bare(verr))]
    ELSE [r |-> [r EXCEPT !.cur = SetTag(r.cur, type, t)], err |-> NilEntry]

\* the end of a handler with the Set call moved before the test of Validate
validateAndSetAlways(r, type, t, verr) ==
    IF verr # Nil
    THEN [r |-> [r EXCEPT !.cur = SetTag(r.cur, type, t)], err |-> parseError(r, Bare(verr))]
    ELSE [r |-> [r EXCEPT !.cur = SetTag(r.cur, type, t)], err |-> NilEntry]

\* the end of every handler: if err := t.Validate(); err != nil { return
\* r.parseError(err) }; r.currentFEDWireMessage.SetX(t); return nil
validateAndSet(r, type, t, verr) ==
    IF verr # Nil THEN [r |-> r, err |-> parseError(r, Bare(verr))]
    ELSE [r |-> [r EXCEPT !.cur = SetTag(r.cur, type, t)], err |-> NilEntry]

\* a length test of a fixed-only handler fails: r.errors.Add(r.parseError(
\* NewTagWrongLengthErr(required, len(r.line)))); return r.errors
wrongLength(r, added) == [r |-> [r EXCEPT !.errors = added], err |-> AsError(added)]

SenderSuppliedParsed(l) == SenderSuppliedParse(ZeroSenderSupplied, l).t

parseSenderSupplied(r0) ==
    LET r == [r0 EXCEPT !.tagName = "SenderSupplied"]
        run(ss) == validateAndSet(r, "SenderSupplied", ss, SenderSuppliedValidate(ss))
    IN IF Len(r0.line) # 18
       THEN wrongLength(r, Add(r.errors,
                parseError(r, Bare(NewTagWrongLengthErr(18, Len(r0.line))))))
       ELSE run(SenderSuppliedParsed(r0.line))

\* a handler of a fixed-only tag: the length test of the line against tested,
\* which reports the length reported; then Parse (its error dropped), Validate
\* and the Set call
fixedHandler(r0, name, tested, reported, code) ==
    LET r == [r0 EXCEPT !.tagName = name]
        run(t) == validateAndSet(r, name, t, BodyTagValidate(t, code))
    IN IF Len(r0.line) # tested
       THEN wrongLength(r, Add(r.errors,
                parseError(r, Bare(NewTagWrongLengthErr(reported, Len(r0.line))))))
       ELSE run(FixedTagParse(ZeroBodyTag, r0.line, tested).t)

parseTypeSubType(r0) == fixedHandler(r0, "TypeSubType", 10, 10, TagTypeSubType)

parseInputMessageAccountabilityData(r0) ==
    fixedHandler(r0, "InputMessageAccountabilityData", 28, 22,
                 TagInputMessageAccountabilityData)

parseAmount(r0) == fixedHandler(r0, "Amount", 18, 18, TagAmount)

parseBusinessFunctionCode(r0) ==
    fixedHandler(r0, "BusinessFunctionCode", 12, 12, TagBusinessFunctionCode)

\* a handler without a length test: Parse (its error dropped), Validate, Set
bodyHandler(r0, name, code) ==
    LET r == [r0 EXCEPT !.tagName = name]
        run(t) == validateAndSet(r, name, t, BodyTagValidate(t, code))
    IN run(BodyTagParse(ZeroBodyTag, r0.line).t)

\* the three handlers no case of parseLine calls
parseMessageDisposition(r0) ==
    bodyHandler(r0, "MessageDisposition", TagMessageDisposition)

parseOutputMessageAccountabilityData(r0) ==
    bodyHandler(r0, "OutputMessageAccountabilityData", TagOutputMessageAccountabilityData)

parseErrorWire(r0) == bodyHandler(r0, "ErrorWire", TagErrorWire)

\* r.currentFEDWireMessage = FEDWireMessage{}: no handler and no step of Read
\* calls it
addCurrentFEDWireMessage(r) == [r EXCEPT !.cur = NewFEDWireMessage]

\* li := new(LocalInstrument); li.Parse(r.line): the error Parse returns is dropped
LocalInstrumentParsed(l) == LocalInstrumentParse(ZeroLocalInstrument, l).t

parseLocalInstrument(r0) ==
    LET r == [r0 EXCEPT !.tagName = "LocalInstrument"]
        run(li) == validateAndSet(r, "LocalInstrument", li, LocalInstrumentValidate(li))
    IN run(LocalInstrumentParsed(r0.line))

ChargesParsed(l) == ChargesParse(ZeroCharges, l).t

\* parseCharges without the call of SetCharges
parseChargesNoSet(r0) ==
    LET r == [r0 EXCEPT !.tagName = "Charges"]
        run(c) == IF ChargesValidate(c) # Nil
                  THEN [r |-> r, err |-> parseError(r, Bare(ChargesValidate(c)))]
                  ELSE [r |-> r, err |-> NilEntry]
    IN run(ChargesParsed(r0.line))

parseCharges(r0) ==
    LET r == [r0 EXCEPT !.tagName = "Charges"]
        run(c) == validateAndSet(r, "Charges", c, ChargesValidate(c))
    IN run(ChargesParsed(r0.line))

OriginatorParsed(l) == OriginatorParse(ZeroOriginator, l).t

parseOriginator(r0) ==
    LET r == [r0 EXCEPT !.tagName = "Originator"]
        run(o) == validateAndSet(r, "Originator", o, OriginatorValidate(o))
    IN run(OriginatorParsed(r0.line))

FIPaymentMethodToBeneficiaryParsed(l) ==
    FIPaymentMethodToBeneficiaryParse(ZeroFIPaymentMethodToBeneficiary, l).t

parseFIPaymentMethodToBeneficiary(r0) ==
    LET r == [r0 EXCEPT !.tagName = "FIPaymentMethodToBeneficiary"]
        run(pm) == validateAndSet(r, "FIPaymentMethodToBeneficiary", pm,
                                  FIPaymentMethodToBeneficiaryValidate(pm))
    IN run(FIPaymentMethodToBeneficiaryParsed(r0.line))

\* parseLine with a default case that returns nil
parseLineSilent(r) ==
    LET prefix == Slice(r.line, 0, 6)
    IN CASE prefix = TagSenderSupplied -> parseSenderSupplied(r)
         [] prefix = TagTypeSubType -> parseTypeSubType(r)
         [] prefix = TagInputMessageAccountabilityData ->
                parseInputMessageAccountabilityData(r)
         [] prefix = TagAmount -> parseAmount(r)
         [] prefix = TagBusinessFunctionCode -> parseBusinessFunctionCode(r)
         [] prefix = TagLocalInstrument -> parseLocalInstrument(r)
         [] prefix = TagCharges -> parseCharges(r)
         [] prefix = TagOriginator -> parseOriginator(r)
         [] prefix = TagFIPaymentMethodToBeneficiary -> parseFIPaymentMethodToBeneficiary(r)
         [] OTHER -> [r |-> r, err |-> NilEntry]

\* parseLine with the cases of MessageDisposition, OutputMessageAccountability-
\* Data and ErrorWire added to the switch
parseLineAllHandlers(r) ==
    LET prefix == Slice(r.line, 0, 6)
    IN CASE prefix = TagMessageDisposition -> parseMessageDisposition(r)
         [] prefix = TagOutputMessageAccountabilityData ->
                parseOutputMessageAccountabilityData(r)
         [] prefix = TagErrorWire -> parseErrorWire(r)
         [] prefix = TagSenderSupplied -> parseSenderSupplied(r)
         [] prefix = TagTypeSubType -> parseTypeSubType(r)
         [] prefix = TagInputMessageAccountabilityData ->
                parseInputMessageAccountabilityData(r)
         [] prefix = TagAmount -> parseAmount(r)
         [] prefix = TagBusinessFunctionCode -> parseBusinessFunctionCode(r)
         [] prefix = TagLocalInstrument -> parseLocalInstrument(r)
         [] prefix = TagCharges -> parseCharges(r)
         [] prefix = TagOriginator -> parseOriginator(r)
         [] prefix = TagFIPaymentMethodToBeneficiary -> parseFIPaymentMethodToBeneficiary(r)
         [] OTHER -> [r |-> r, err |-> Bare(NewErrInvalidTag(prefix))]

\* parseLine, for a line of at least 6 characters; the dispatch table is cut
\* down to the tags modelled here, and the inputs carry no other known prefix
parseLine(r) ==
    LET prefix == Slice(r.line, 0, 6)
    IN CASE prefix = TagSenderSupplied -> parseSenderSupplied(r)
         [] prefix = TagTypeSubType -> parseTypeSubType(r)
         [] prefix = TagInputMessageAccountabilityData ->
                parseInputMessageAccountabilityData(r)
         [] prefix = TagAmount -> parseAmount(r)
         [] prefix = TagBusinessFunctionCode -> parseBusinessFunctionCode(r)
         [] prefix = TagLocalInstrument -> parseLocalInstrument(r)
         [] prefix = TagCharges -> parseCharges(r)
         [] prefix = TagOriginator -> parseOriginator(r)
         [] prefix = TagFIPaymentMethodToBeneficiary -> parseFIPaymentMethodToBeneficiary(r)
         [] OTHER -> [r |-> r, err |-> Bare(NewErrInvalidTag(prefix))]

\* r.line[:6] panics on a line of fewer than 6 characters
parseLinePanics(l) == Len(l) < 6

----------------------------------------------------------------------------
(* The input lines *)

Lines ==
    {"{3610}ANSI" \o Spaces(35),
     "{3610}PROP*ABC*",
     "{3610}ANSI*",
     "{3610}ANSI**X",
     "{3610}XXXX*",
     "{5000}",
     "{5000}1ID*NAME*",
     "{5000}2ID*NAME*ADDR*",
     "{5000}1ID*NAME*****",
     "{6420}CHECK*",
     "{6420}CHECK*X",
     "{6420}",
     "{1500}",
     "{1500}30USERREQXT ",
     "{1510}1000",
     "{1510}10",
     "{1520}20190410SOURCE08000001",
     "{1520}20190410SOURCE08",
     "{2000}000000001234",
     "{2000}1234",
     "{3600}CTR   ",
     "{3600}CTR",
     "{1100}30P ",
     "{1120}20190410SOURCE08000001",
     "{1130}1XYZ",
     "{9999}XX",
     "{9999}30USERREQXT ",
     "{9999}",
     "{36",
     "",
     "{3700}",
     "{3700}B*",
     "{3700}S*USD1,00*",
     "{3700}B*****"}

----------------------------------------------------------------------------
(* Reader.Read *)

ReaderInit ==
    /\ pc = "idle"
    /\ lines = <<>>
    /\ line = ""
    /\ lineNum = 0
    /\ tagName = ""
    /\ currentFEDWireMessage = NewFEDWireMessage
    /\ errors = <<>>
    /\ File = <<>>
    /\ ret = <<>>

\* Read is entered, on a new Reader or after an earlier call has returned:
\* r.lineNum = 0.  Nothing else of the Reader is set.
ReadStart ==
    /\ pc = "idle" \/ (pc = "done" /\ Len(ret) < MaxReads)
    /\ pc' = "scan"
    /\ lineNum' = 0
    /\ lines' = <<>>
    /\ UNCHANGED <<line, tagName, currentFEDWireMessage, errors, File, ret>>
    /\ UNCHANGED codecVars

\* the loop of Read with the error of a line put in front of the list
addResultInFront(res) ==
    /\ tagName' = res.r.tagName
    /\ currentFEDWireMessage' = res.r.cur
    /\ errors' = IF res.err.type # "nil" THEN <<res.err>> \o res.r.errors ELSE res.r.errors

\* if err := r.parseLine(); err != nil { r.errors.Add(err) }
addResult(res) ==
    /\ tagName' = res.r.tagName
    /\ currentFEDWireMessage' = res.r.cur
    /\ errors' = IF res.err.type # "nil" THEN Add(res.r.errors, res.err) ELSE res.r.errors

\* one turn of the loop: the scanner delivers l, parseLine runs, its error is added.
\* The scanner of a Reader whose earlier call has returned is exhausted.
ScanLine(l) ==
    /\ pc = "scan"
    /\ ret = <<>>
    /\ Len(lines) < MaxLines
    /\ lines' = Append(lines, l)
    /\ lineNum' = lineNum + 1
    /\ line' = l
    /\ IF parseLinePanics(l)
       THEN /\ pc' = "panic"
            /\ UNCHANGED <<tagName, currentFEDWireMessage, errors>>
       ELSE /\ pc' = "scan"
            /\ addResult(parseLine([line |-> l, lineNum |-> lineNum + 1,
                                    tagName |-> tagName, errors |-> errors,
                                    cur |-> currentFEDWireMessage]))
    /\ UNCHANGED <<File, ret>>
    /\ UNCHANGED codecVars

\* the scanner is exhausted: the message is added to the File and Read returns
Finalize ==
    /\ pc = "scan"
    /\ File' = AddFEDWireMessage(File, currentFEDWireMessage)
    /\ currentFEDWireMessage' = NewFEDWireMessage
    /\ ret' = Append(ret, [file |-> File',
                            err |-> IF Empty(errors) THEN NilEntry ELSE AsError(errors)])
    /\ pc' = "done"
    /\ UNCHANGED <<lines, line, lineNum, tagName, errors>>
    /\ UNCHANGED codecVars

\* between two lines the caller serializes the Charges tag the message holds:
\* r.currentFEDWireMessage.Charges.String() or .String(true)
StringCharges ==
    /\ pc = "scan"
    /\ cpc = "off"
    /\ currentFEDWireMessage.Charges # <<>>
    /\ cpc' = "rendered"
    /\ ctag' = [type |-> "Charges", v |-> currentFEDWireMessage.Charges[1]]
    /\ cmode' \in BOOLEAN
    /\ cstr' = ChargesString(currentFEDWireMessage.Charges[1],
                             IF cmode' THEN <<TRUE>> ELSE <<>>)
    /\ UNCHANGED <<cres, cval, cfld>>
    /\ UNCHANGED readerVars

----------------------------------------------------------------------------
(* The codec exercised on its own: a tag value is serialized by String and *)
(* the record is decoded by Parse into a fresh tag.                         *)

\* how many characters longer than its declared width a field value may be
MaxOver == 1

\* field values of the full width and beyond
Wide(width) == {Repeat("A", n) : n \in width..(width + MaxOver)}

\* a field value with a character no charset of the validators admits (a tab)
NotAlphanumeric == "A\tB"

LocalInstrumentValues ==
    [tag : {TagLocalInstrument, "{9999}"},
     LocalInstrumentCode : {"", "ANSI", "PROP", "XXXX"},
     ProprietaryCode : {"", "ABC", NotAlphanumeric} \cup Wide(35)]

OriginatorValues ==
    [tag : {TagOriginator, "{9999}"},
     IdentificationCode : {"", "1", "Z"},
     Identifier : {"", "ID"} \cup Wide(34),
     Name : {"", "NAME", NotAlphanumeric} \cup Wide(35),
     AddressLineOne : {"", "ADDR1"},
     AddressLineTwo : {"", NotAlphanumeric},
     AddressLineThree : {"", "ADDR3", NotAlphanumeric}]

FIPaymentMethodToBeneficiaryValues ==
    [tag : {TagFIPaymentMethodToBeneficiary, "{9999}"},
     PaymentMethod : {"CHECK", "CASH", ""},
     AdditionalInformation : {"", "INFO", NotAlphanumeric} \cup Wide(30)]

ChargesValues ==
    [tag : {TagCharges, "{9999}"},
     ChargeDetails : {"", "B", "X"},
     SendersChargesOne : {"", "USD1,00"} \cup Wide(15),
     SendersChargesTwo : {"", "USD2,00"},
     SendersChargesThree : {""},
     SendersChargesFour : {"", "USD4,00"}]

\* the tags of this file and of part_000, whose Parse, Validate and String are
\* in the source
ThreeTags == {"LocalInstrument", "Originator", "FIPaymentMethodToBeneficiary"}

CodecTags ==
    [type : {"LocalInstrument"}, v : LocalInstrumentValues]
    \cup [type : {"Originator"}, v : OriginatorValues]
    \cup [type : {"FIPaymentMethodToBeneficiary"}, v : FIPaymentMethodToBeneficiaryValues]
    \cup [type : {"Charges"}, v : ChargesValues]

\* the minimum schema size of a trailing-variable tag
MinSize(type) ==
    CASE type = "LocalInstrument" -> 6
      [] type = "Charges" -> 7
      [] type = "Originator" -> 9
      [] type = "FIPaymentMethodToBeneficiary" -> 11

\* t.Validate()
ValidateOf(t) ==
    CASE t.type = "LocalInstrument" -> LocalInstrumentValidate(t.v)
      [] t.type = "Originator" -> OriginatorValidate(t.v)
      [] t.type = "FIPaymentMethodToBeneficiary" -> FIPaymentMethodToBeneficiaryValidate(t.v)
      [] t.type = "Charges" -> ChargesValidate(t.v)

\* t.String(options...)
StringOf(t, options) ==
    CASE t.type = "LocalInstrument" -> LocalInstrumentString(t.v, options)
      [] t.type = "Originator" -> OriginatorString(t.v, options)
      [] t.type = "FIPaymentMethodToBeneficiary" ->
            FIPaymentMethodToBeneficiaryString(t.v, options)
      [] t.type = "Charges" -> ChargesString(t.v, options)

\* new(T).Parse(record)
ParseOf(type, record) ==
    CASE type = "LocalInstrument" -> LocalInstrumentParse(ZeroLocalInstrument, record)
      [] type = "Originator" -> OriginatorParse(ZeroOriginator, record)
      [] type = "FIPaymentMethodToBeneficiary" ->
            FIPaymentMethodToBeneficiaryParse(ZeroFIPaymentMethodToBeneficiary, record)
      [] type = "Charges" -> ChargesParse(ZeroCharges, record)

\* t.Parse(record) on the tag value t, which already holds a tag code and fields
ParseIntoOf(t, record) ==
    CASE t.type = "LocalInstrument" -> LocalInstrumentParse(t.v, record)
      [] t.type = "Originator" -> OriginatorParse(t.v, record)
      [] t.type = "FIPaymentMethodToBeneficiary" ->
            FIPaymentMethodToBeneficiaryParse(t.v, record)
      [] t.type = "Charges" -> ChargesParse(t.v, record)

\* new(T)
ZeroOf(type) ==
    CASE type = "LocalInstrument" -> ZeroLocalInstrument
      [] type = "Originator" -> ZeroOriginator
      [] type = "FIPaymentMethodToBeneficiary" -> ZeroFIPaymentMethodToBeneficiary
      [] type = "Charges" -> ZeroCharges

\* the first variable-field decode of new(T).Parse(record): none when Parse
\* returns before it for a record under the minimum length
FirstFieldOf(type, record) ==
    CASE type = "LocalInstrument" ->
            IF Len(record) < 6 THEN <<>> ELSE <<variableField(record, 6, 4)>>
      [] type = "Originator" ->
            IF Len(record) < 9 THEN <<>> ELSE <<variableField(record, 7, 34)>>
      [] type = "FIPaymentMethodToBeneficiary" ->
            IF Len(record) < 11 THEN <<>> ELSE <<variableField(record, 11, 30)>>
      [] type = "Charges" ->
            IF Len(record) < 7 THEN <<>> ELSE <<variableField(record, 7, 15)>>

ReaderIdle ==
    /\ pc = "off"
    /\ lines = <<>>
    /\ line = ""
    /\ lineNum = 0
    /\ tagName = ""
    /\ currentFEDWireMessage = NewFEDWireMessage
    /\ errors = <<>>
    /\ File = <<>>
    /\ ret = <<>>

CodecInit ==
    /\ cpc = "start"
    /\ ctag \in CodecTags
    /\ cmode \in BOOLEAN
    /\ cstr = ""
    /\ cres = <<>>
    /\ cval = <<>>
    /\ cfld = <<>>

\* t.Validate() on the tag value
Validate ==
    /\ cpc = "start"
    /\ cval = <<>>
    /\ cval' = <<ValidateOf(ctag)>>
    /\ UNCHANGED <<cpc, ctag, cmode, cstr, cres, cfld>>
    /\ UNCHANGED readerVars

Serialize ==
    /\ cpc = "start"
    /\ cval # <<>>
    /\ cstr' = StringOf(ctag, IF cmode THEN <<TRUE>> ELSE <<>>)
    /\ cpc' = "serialized"
    /\ UNCHANGED <<ctag, cmode, cres, cval, cfld>>
    /\ UNCHANGED readerVars

\* the record is damaged before it is decoded: a character or a terminator is
\* appended, the last character is lost, or the record is cut off one character
\* under the minimum size of its tag, or inside its prefix
Mangle ==
    /\ cpc = "serialized"
    /\ cstr' \in {cstr \o "X", cstr \o "*", Slice(cstr, 0, Len(cstr) - 1),
                  Slice(cstr, 0, MinSize(ctag.type) - 1), Slice(cstr, 0, 3)}
    /\ cpc' = "mangled"
    /\ UNCHANGED <<ctag, cmode, cres, cval, cfld>>
    /\ UNCHANGED readerVars

Decode ==
    /\ cpc \in {"serialized", "mangled"}
    /\ cres' = <<ParseOf(ctag.type, cstr)>>
    /\ cfld' = FirstFieldOf(ctag.type, cstr)
    /\ cpc' = IF cpc = "mangled" THEN "parsedMangled" ELSE "parsed"
    /\ UNCHANGED <<ctag, cmode, cstr, cval>>
    /\ UNCHANGED readerVars

\* a LocalInstrument and an Originator that hold a value in every field
FullOf(type) ==
    CASE type = "LocalInstrument" ->
            [tag |-> "{9999}", LocalInstrumentCode |-> "OLD1", ProprietaryCode |-> "OLD2"]
      [] type = "Originator" ->
            [tag |-> "{9999}", IdentificationCode |-> "9", Identifier |-> "OLD1",
             Name |-> "OLD2", AddressLineOne |-> "OLD3", AddressLineTwo |-> "OLD4",
             AddressLineThree |-> "OLD5"]

\* FullOf(type).Parse(record) with the decode of field number fault failing
ParseFaultOf(type, record, fault) ==
    CASE type = "LocalInstrument" ->
            LocalInstrumentParseFault(FullOf(type), record, fault)
      [] type = "Originator" -> OriginatorParseFault(FullOf(type), record, fault)

\* the number of variable fields Parse decodes
NumVariable(type) ==
    CASE type = "LocalInstrument" -> 2
      [] type = "Originator" -> 5

\* Parse of the record into a tag that holds a value in every field, where the
\* decode of one variable field, which has no character left to read, fails
DecodeFault ==
    /\ cpc \in {"serialized", "mangled"}
    /\ ctag.type \in {"LocalInstrument", "Originator"}
    /\ \E fault \in 1..NumVariable(ctag.type) :
          /\ ParseFaultOf(ctag.type, cstr, fault).err.field # ""
          /\ cres' = <<[t |-> ParseFaultOf(ctag.type, cstr, fault).t,
                        err |-> ParseFaultOf(ctag.type, cstr, fault).err,
                        fault |-> fault]>>
    /\ cfld' = <<>>
    /\ cpc' = "parsedFault"
    /\ UNCHANGED <<ctag, cmode, cstr, cval>>
    /\ UNCHANGED readerVars

\* t.Parse(record) with the tag value itself as the receiver: cres holds the
\* receiver after the call, ctag the receiver before it
ParseInto ==
    /\ cpc \in {"serialized", "mangled"}
    /\ cres' = <<ParseIntoOf(ctag, cstr)>>
    /\ cfld' = <<>>
    /\ cpc' = "reparsed"
    /\ UNCHANGED <<ctag, cmode, cstr, cval>>
    /\ UNCHANGED readerVars

NextCodec == Validate \/ Serialize \/ Mangle \/ Decode \/ ParseInto \/ DecodeFault

InitCodec == ReaderIdle /\ CodecInit

SpecCodec == InitCodec /\ [][NextCodec]_vars

CodecIdle ==
    /\ cpc = "off"
    /\ ctag = [type |-> "none"]
    /\ cmode = FALSE
    /\ cstr = ""
    /\ cres = <<>>
    /\ cval = <<>>
    /\ cfld = <<>>

Init == ReaderInit /\ CodecIdle

Next ==
    \/ ReadStart
    \/ \E l \in Lines : ScanLine(l)
    \/ StringCharges
    \/ Finalize

Spec == Init /\ [][Next]_vars

----------------------------------------------------------------------------
(* What the input lines are, for the statements below *)

Last(seq) == seq[Len(seq)]

Max(S) == CHOOSE i \in S : \A j \in S : j <= i

\* the tags of a fixed total length that the reader tests the line length of
FixedTypes ==
    {"SenderSupplied", "TypeSubType", "InputMessageAccountabilityData", "Amount",
     "BusinessFunctionCode"}

TagTypes ==
    FixedTypes \cup {"LocalInstrument", "Charges", "Originator",
                     "FIPaymentMethodToBeneficiary"}

\* the type code of a tag type
CodeOf(type) ==
    CASE type = "SenderSupplied" -> TagSenderSupplied
      [] type = "TypeSubType" -> TagTypeSubType
      [] type = "InputMessageAccountabilityData" -> TagInputMessageAccountabilityData
      [] type = "Amount" -> TagAmount
      [] type = "BusinessFunctionCode" -> TagBusinessFunctionCode
      [] type = "LocalInstrument" -> TagLocalInstrument
      [] type = "Charges" -> TagCharges
      [] type = "Originator" -> TagOriginator
      [] type = "FIPaymentMethodToBeneficiary" -> TagFIPaymentMethodToBeneficiary

\* the fixed total length of a fixed-only tag
FixedLength(type) ==
    CASE type = "SenderSupplied" -> 18
      [] type = "TypeSubType" -> 10
      [] type = "InputMessageAccountabilityData" -> 28
      [] type = "Amount" -> 18
      [] type = "BusinessFunctionCode" -> 12

\* the trailing-variable tags
VariableTypes == {"LocalInstrument", "Charges", "Originator", "FIPaymentMethodToBeneficiary"}

\* the tag type a line's first 6 characters name: "short" when there are fewer
\* than 6, "invalid" when they match no tag code
TypeOfLine(l) ==
    IF Len(l) < 6 THEN "short"
    ELSE IF \E type \in TagTypes : CodeOf(type) = Slice(l, 0, 6)
         THEN CHOOSE type \in TagTypes : CodeOf(type) = Slice(l, 0, 6)
    ELSE "invalid"

\* Parse of the line's tag type on a fresh tag: [t, err]
LineParse(l) ==
    CASE TypeOfLine(l) = "SenderSupplied" -> SenderSuppliedParse(ZeroSenderSupplied, l)
      [] TypeOfLine(l) \in FixedTypes \ {"SenderSupplied"} ->
            FixedTagParse(ZeroBodyTag, l, FixedLength(TypeOfLine(l)))
      [] TypeOfLine(l) = "LocalInstrument" -> LocalInstrumentParse(ZeroLocalInstrument, l)
      [] TypeOfLine(l) = "Charges" -> ChargesParse(ZeroCharges, l)
      [] TypeOfLine(l) = "Originator" -> OriginatorParse(ZeroOriginator, l)
      [] TypeOfLine(l) = "FIPaymentMethodToBeneficiary" ->
            FIPaymentMethodToBeneficiaryParse(ZeroFIPaymentMethodToBeneficiary, l)

\* Validate of the tag the line decodes to
LineValidate(l) ==
    CASE TypeOfLine(l) = "SenderSupplied" -> SenderSuppliedValidate(LineParse(l).t)
      [] TypeOfLine(l) \in FixedTypes \ {"SenderSupplied"} ->
            BodyTagValidate(LineParse(l).t, CodeOf(TypeOfLine(l)))
      [] TypeOfLine(l) = "LocalInstrument" -> LocalInstrumentValidate(LineParse(l).t)
      [] TypeOfLine(l) = "Charges" -> ChargesValidate(LineParse(l).t)
      [] TypeOfLine(l) = "Originator" -> OriginatorValidate(LineParse(l).t)
      [] TypeOfLine(l) = "FIPaymentMethodToBeneficiary" ->
            FIPaymentMethodToBeneficiaryValidate(LineParse(l).t)

\* a line with a recognized prefix that decodes and validates without error
WellFormed(l) ==
    /\ TypeOfLine(l) \in TagTypes
    /\ LineParse(l).err = Nil
    /\ LineValidate(l) = Nil

\* unrecognized prefix, wrong length, decode failure or validation failure
Malformed(l) == ~WellFormed(l)

\* the end of a tag's prefix and fixed-width fields
FixedEnd(type) ==
    CASE type = "LocalInstrument" -> 6
      [] type = "Charges" -> 7
      [] type = "Originator" -> 7
      [] type = "FIPaymentMethodToBeneficiary" -> 11

\* the maximum widths of a tag's variable fields, in order
VariableWidths(type) ==
    CASE type = "LocalInstrument" -> <<4, 35>>
      [] type = "Charges" -> <<15, 15, 15, 15>>
      [] type = "Originator" -> <<34, 35, 35, 35, 35>>
      [] type = "FIPaymentMethodToBeneficiary" -> <<30>>

\* the consumed lengths the variable-field decodes report on rest, summed
RECURSIVE SumReads(_, _)
SumReads(rest, widths) ==
    IF widths = <<>> THEN 0
    ELSE LET f == parseVariableStringField(rest, Head(widths))
         IN f.read + SumReads(SliceFrom(rest, f.read), Tail(widths))

\* the ParseError the reader makes of err on the current line
LineTagged(err) ==
    [type |-> "ParseError", Line |-> lineNum, Record |-> tagName, Err |-> err,
     list |-> <<>>]

\* the loop has just processed the line held in r.line
LineDone == pc = "scan" /\ lineNum > 0

----------------------------------------------------------------------------
(* The statements checked *)

\* C1: round trip.  For every tag value t of LocalInstrument, Originator and
\* FIPaymentMethodToBeneficiary that passes Validate, and both the legacy and
\* the compact mode, Parse(String(t, mode)) returns no error and gives a tag
\* whose tag code and fields equal those of t.
C1_RoundTrip ==
    (cpc = "parsed" /\ ctag.type \in ThreeTags /\ cval[1] = Nil)
        => (cres[1].err = Nil /\ cres[1].t = ctag.v)

\* C2: when Read returns, the error list holds exactly one entry per malformed
\* line of the input, and no entry is the error list itself.
C2_OneErrorPerMalformedLine ==
    pc = "done" =>
        /\ Len(errors) = Cardinality({i \in 1..Len(lines) : Malformed(lines[i])})
        /\ \A k \in 1..Len(errors) : errors[k].type # "ErrorList"

\* C3: Read never stops at a failing line, and every well-formed line with a
\* recognized prefix is decoded, validated and stored in the aggregate.
C3_ReadNeverStops ==
    /\ pc # "panic"
    /\ (LineDone /\ WellFormed(line))
          => currentFEDWireMessage[TypeOfLine(line)] = <<LineParse(line).t>>

\* C4: a line with the prefix of a trailing-variable tag that is shorter than the
\* tag's minimum schema size makes the handler return a line-tagged
\* TagMinLengthError with the required length and the actual length of the line.
C4_MinLengthReported ==
    (LineDone /\ TypeOfLine(line) \in VariableTypes
              /\ Len(line) < MinSize(TypeOfLine(line)))
        => /\ errors # <<>>
           /\ Last(errors) =
                LineTagged(NewTagMinLengthErr(MinSize(TypeOfLine(line)), Len(line)))

\* C5: a line of a trailing-variable tag with characters left unconsumed after
\* all fields are decoded makes the handler return a line-tagged
\* TagMaxLengthError for that line.
C5_MaxLengthReported ==
    (LineDone /\ TypeOfLine(line) \in VariableTypes
              /\ LineParse(line).err = NewTagMaxLengthErr)
        => /\ errors # <<>>
           /\ Last(errors) = LineTagged(NewTagMaxLengthErr)

\* C6: every tag present in the current aggregate was decoded from a line of
\* the input whose Parse and whose Validate both returned no error.
C6_StoredOnlyIfParsed ==
    pc = "scan" =>
        \A type \in TagTypes :
            currentFEDWireMessage[type] # <<>> =>
                \E i \in 1..Len(lines) :
                    /\ TypeOfLine(lines[i]) = type
                    /\ WellFormed(lines[i])
                    /\ currentFEDWireMessage[type] = <<LineParse(lines[i]).t>>

\* C7: byte accounting.  Parse of LocalInstrument, Originator and
\* FIPaymentMethodToBeneficiary returns nil only if the prefix and fixed-field
\* widths plus the consumed lengths of the variable-field decodes add up to the
\* length of the record.
C7_ByteAccounting ==
    (cpc \in {"parsed", "parsedMangled"} /\ ctag.type \in ThreeTags /\ cres[1].err = Nil)
        => Len(cstr) = FixedEnd(ctag.type)
                         + SumReads(SliceFrom(cstr, FixedEnd(ctag.type)),
                                    VariableWidths(ctag.type))

\* C7 happens: a record with a surplus was decoded and Parse returned
\* TagMaxLengthError, after a record that adds up was decoded without error
C7_Witness ==
    /\ cpc = "parsedMangled"
    /\ cres[1].err = NewTagMaxLengthErr
    /\ Len(cstr) > FixedEnd(ctag.type)
                     + SumReads(SliceFrom(cstr, FixedEnd(ctag.type)),
                                VariableWidths(ctag.type))

\* C8: last write wins.  For every tag type with a valid line in the input, the
\* aggregate holds the content of the last valid line of that type.
C8_LastWriteWins ==
    pc = "scan" =>
        \A type \in TagTypes :
            LET valid == {i \in 1..Len(lines) :
                            TypeOfLine(lines[i]) = type /\ WellFormed(lines[i])}
            IN valid # {} =>
                 currentFEDWireMessage[type] = <<LineParse(lines[Max(valid)]).t>>

\* C9: for every input, one call of Read adds the aggregate to the File exactly
\* once, when the call ends and never before.
C9_FinalizedOnce ==
    /\ pc \in {"idle", "scan"} => Len(File) = Len(ret)
    /\ pc = "done" => Len(File) = Len(ret)
    /\ pc = "panic" => Len(File) = Len(ret) + 1

\* C10: Read returns a nil error if and only if no line of the input failed,
\* and otherwise the non-empty error list together with the File.
C10_NilIffNoLineFailed ==
    (pc = "done" /\ Len(ret) = 1) =>
        LET failed == \E i \in 1..Len(lines) : Malformed(lines[i])
        IN /\ (ret[1].err = NilEntry) <=> ~failed
           /\ failed => /\ ret[1].err = AsError(errors)
                        /\ errors # <<>>
                        /\ ret[1].file = File

\* the tag codes the dispatch of parseLine knows
DispatchCodes ==
    {TagSenderSupplied, TagTypeSubType, TagInputMessageAccountabilityData, TagAmount,
     TagBusinessFunctionCode, TagLocalInstrument, TagCharges, TagOriginator,
     TagFIPaymentMethodToBeneficiary}

\* the step of the loop that processed one more line
LineStep == Len(lines') = Len(lines) + 1

\* C11: a line whose first 6 characters match no tag code of the dispatch yields
\* an InvalidTagError for that line, leaves the aggregate unchanged and lets the
\* loop go on; and whether a line of 6 characters or more yields an
\* InvalidTagError depends on its first 6 characters only.
C11_InvalidTagError ==
    [][LineStep =>
        /\ TypeOfLine(line') = "invalid" =>
              /\ errors' = Append(errors, Bare(NewErrInvalidTag(Slice(line', 0, 6))))
              /\ currentFEDWireMessage' = currentFEDWireMessage
              /\ pc' = "scan"
        /\ Len(line') >= 6 =>
              ((errors' # errors /\ Last(errors').Err.kind = "InvalidTagError")
                  <=> Slice(line', 0, 6) \notin DispatchCodes)]_vars

\* C11 happens: a line with an unknown prefix gave an InvalidTagError and the
\* well-formed line after it was stored
C11_Witness ==
    /\ pc = "scan"
    /\ Len(lines) = 2
    /\ TypeOfLine(lines[1]) = "invalid"
    /\ WellFormed(lines[2])
    /\ errors = <<Bare(NewErrInvalidTag(Slice(lines[1], 0, 6)))>>
    /\ currentFEDWireMessage[TypeOfLine(lines[2])] = <<LineParse(lines[2]).t>>

\* C12: LocalInstrument.Validate returns an InvalidPropertyError with the field
\* name ProprietaryCode whenever ProprietaryCode is non-empty and
\* LocalInstrumentCode is not "PROP", whatever the tag code and the other
\* fields are, and never returns one otherwise.
C12_InvalidProperty ==
    (cval # <<>> /\ ctag.type = "LocalInstrument") =>
        IF ctag.v.ProprietaryCode # "" /\ ctag.v.LocalInstrumentCode # "PROP"
        THEN cval[1].kind = ErrInvalidProperty /\ cval[1].field = "ProprietaryCode"
        ELSE cval[1].kind # ErrInvalidProperty

\* C12 happens: Validate gave the InvalidPropertyError on a tag whose tag code,
\* LocalInstrumentCode and ProprietaryCode charset are all wrong as well
C12_Witness ==
    /\ cval # <<>>
    /\ ctag.type = "LocalInstrument"
    /\ ctag.v.tag # TagLocalInstrument
    /\ ctag.v.LocalInstrumentCode = "XXXX"
    /\ ctag.v.ProprietaryCode = NotAlphanumeric
    /\ cval[1] = fieldError("ProprietaryCode", ErrInvalidProperty, NotAlphanumeric)

\* C13: LocalInstrument.Validate returns a FieldRequiredError when
\* LocalInstrumentCode is "PROP" and ProprietaryCode is empty.
C13_FieldRequired ==
    (cval # <<>> /\ ctag.type = "LocalInstrument"
                /\ ctag.v.LocalInstrumentCode = "PROP" /\ ctag.v.ProprietaryCode = "")
        => cval[1].kind = ErrFieldRequired

\* C14: Originator.Validate returns a FieldRequiredError, naming the missing
\* field, if and only if exactly one of IdentificationCode and Identifier is
\* empty; Originator.Parse returns no such error: it fails only when the record
\* is under the minimum length or its lengths do not add up.
C14_BothOrNeither ==
    /\ (cval # <<>> /\ ctag.type = "Originator") =>
          /\ (cval[1].kind = ErrFieldRequired)
                <=> ((ctag.v.IdentificationCode = "") # (ctag.v.Identifier = ""))
          /\ (ctag.v.IdentificationCode # "" /\ ctag.v.Identifier = "")
                => cval[1].field = "Identifier"
          /\ (ctag.v.IdentificationCode = "" /\ ctag.v.Identifier # "")
                => cval[1].field = "IdentificationCode"
    /\ (cpc \in {"parsed", "parsedMangled"} /\ ctag.type = "Originator") =>
          /\ cres[1].err.kind \in {"nil", "TagMinLengthError", "TagMaxLengthError"}
          /\ cres[1].err # Nil =>
                \/ Len(cstr) < MinSize("Originator")
                \/ Len(cstr) # FixedEnd("Originator")
                                 + SumReads(SliceFrom(cstr, FixedEnd("Originator")),
                                            VariableWidths("Originator"))

\* C14 happens: a record with an IdentificationCode and no Identifier was
\* decoded without error, and Validate of the tag gave the FieldRequiredError
C14_Witness ==
    /\ cpc = "parsed"
    /\ ctag.type = "Originator"
    /\ cres[1].err = Nil
    /\ cres[1].t.IdentificationCode # ""
    /\ cres[1].t.Identifier = ""
    /\ OriginatorValidate(cres[1].t) = fieldError("Identifier", ErrFieldRequired, "")
    /\ cval[1] = fieldError("Identifier", ErrFieldRequired, "")

\* one rule of a Validate: whether the tag value violates it, and the field and
\* the error kind it reports
Rule(bad, field, kind) == [bad |-> bad, field |-> field, kind |-> kind]

\* the rules of Validate in their order: field inclusion, tag code, then the
\* validators of the fields in declaration order
RulesOf(t) ==
    CASE t.type = "LocalInstrument" ->
           <<Rule(t.v.LocalInstrumentCode # "PROP" /\ t.v.ProprietaryCode # "",
                  "ProprietaryCode", ErrInvalidProperty),
             Rule(t.v.tag # TagLocalInstrument, "tag", ErrValidTagForType),
             Rule(isLocalInstrumentCode(t.v.LocalInstrumentCode) # "nil",
                  "LocalInstrumentCode", ErrLocalInstrumentCode),
             Rule(isAlphanumeric(t.v.ProprietaryCode) # "nil",
                  "ProprietaryCode", ErrNonAlphanumeric)>>
      [] t.type = "Originator" ->
           <<Rule(t.v.IdentificationCode # "" /\ t.v.Identifier = "",
                  "Identifier", ErrFieldRequired),
             Rule(t.v.IdentificationCode = "" /\ t.v.Identifier # "",
                  "IdentificationCode", ErrFieldRequired),
             Rule(t.v.tag # TagOriginator, "tag", ErrValidTagForType),
             Rule(isIdentificationCode(t.v.IdentificationCode) # "nil",
                  "IdentificationCode", ErrIdentificationCode),
             Rule(isAlphanumeric(t.v.Identifier) # "nil", "Identifier", ErrNonAlphanumeric),
             Rule(isAlphanumeric(t.v.Name) # "nil", "Name", ErrNonAlphanumeric),
             Rule(isAlphanumeric(t.v.AddressLineOne) # "nil",
                  "AddressLineOne", ErrNonAlphanumeric),
             Rule(isAlphanumeric(t.v.AddressLineTwo) # "nil",
                  "AddressLineTwo", ErrNonAlphanumeric),
             Rule(isAlphanumeric(t.v.AddressLineThree) # "nil",
                  "AddressLineThree", ErrNonAlphanumeric)>>
      [] t.type = "FIPaymentMethodToBeneficiary" ->
           <<Rule(t.v.PaymentMethod # "CHECK", "PaymentMethod", ErrFieldInclusion),
             Rule(t.v.tag # TagFIPaymentMethodToBeneficiary, "tag", ErrValidTagForType),
             Rule(isAlphanumeric(t.v.AdditionalInformation) # "nil",
                  "AdditionalInformation", ErrNonAlphanumeric)>>

\* the rules of a sequence that are violated
Violated(rules) == {k \in 1..Len(rules) : rules[k].bad}

\* C15: Validate of LocalInstrument, Originator and FIPaymentMethodToBeneficiary
\* returns nil when no rule is violated and otherwise exactly the error of the
\* first violated rule in the order field inclusion, tag code, per-field
\* validators in declaration order; the error of a later rule is never returned.
C15_FailFast ==
    (cval # <<>> /\ ctag.type \in ThreeTags) =>
        IF Violated(RulesOf(ctag)) = {} THEN cval[1] = Nil
        ELSE \E k \in Violated(RulesOf(ctag)) :
                /\ \A j \in Violated(RulesOf(ctag)) : k <= j
                /\ cval[1].kind = RulesOf(ctag)[k].kind
                /\ cval[1].field = RulesOf(ctag)[k].field

\* C15 happens: Validate ran on an Originator that violates three rules and
\* returned the error of the first, the charset of Name
C15_Witness ==
    /\ cval # <<>>
    /\ ctag.type = "Originator"
    /\ Cardinality(Violated(RulesOf(ctag))) = 3
    /\ ctag.v.AddressLineThree = NotAlphanumeric
    /\ cval[1] = fieldError("Name", ErrNonAlphanumeric, NotAlphanumeric)

\* the Charges tag with ChargeDetails "B" and every SendersCharges field empty
ChargesB == [ZeroCharges EXCEPT !.tag = TagCharges, !.ChargeDetails = "B"]

\* C16: the line "{3700}B*" is accepted by parseCharges without error and
\* stores a Charges tag with ChargeDetails "B" and every SendersCharges field
\* empty; that tag serializes to "{3700}B" and 60 spaces in legacy mode and to
\* "{3700}B*" in compact mode.
C16_ChargesLine ==
    /\ [][(LineStep /\ line' = "{3700}B*") =>
            /\ errors' = errors
            /\ currentFEDWireMessage'.Charges = <<ChargesB>>]_vars
    /\ []((cpc = "rendered" /\ ctag.v = ChargesB) =>
            cstr = IF cmode THEN "{3700}B*" ELSE "{3700}B" \o Spaces(60))

\* C16 happens: the line was read alone, no error was recorded, and the stored
\* tag was serialized in compact mode
C16_Witness ==
    /\ cpc = "rendered"
    /\ cmode
    /\ lines = <<"{3700}B*">>
    /\ errors = <<>>
    /\ ctag.v = ChargesB
    /\ Len(cstr) = 8

\* the value of the first variable field of a tag value
FirstVariable(t) ==
    CASE t.type = "LocalInstrument" -> t.v.LocalInstrumentCode
      [] t.type = "Originator" -> t.v.Identifier
      [] t.type = "FIPaymentMethodToBeneficiary" -> t.v.AdditionalInformation

\* what the first variable-field decode of Parse is given: the record after the
\* prefix and the fixed fields
FirstRest == SliceFrom(cstr, FixedEnd(ctag.type))

\* the maximum width of the first variable field
FirstWidth == Head(VariableWidths(ctag.type))

\* C17: variable-field decode.  With the terminator at index k of the input, k
\* not greater than the maximum width, the decode consumes k+1 characters; with
\* no terminator within the maximum width and at least that many characters, it
\* consumes the maximum width; and a value within the width decodes, from the
\* terminated and from the padded form alike, to the value without its padding.
C17_VariableDecode ==
    (cfld # <<>> /\ ctag.type \in ThreeTags) =>
        /\ (Index(FirstRest, "*") > -1 /\ Index(FirstRest, "*") <= FirstWidth)
              => cfld[1].read = Index(FirstRest, "*") + 1
        /\ ((Index(FirstRest, "*") = -1 \/ Index(FirstRest, "*") > FirstWidth)
                /\ Len(FirstRest) >= FirstWidth)
              => cfld[1].read = FirstWidth
        /\ (cpc = "parsed" /\ Len(FirstVariable(ctag)) <= FirstWidth)
              => cfld[1].value = TrimSpace(FirstVariable(ctag))

\* C17 happens: a value of the full width was serialized in compact mode, the
\* terminator stood right after it, and the decode consumed the width plus one
C17_Witness ==
    /\ cpc = "parsed"
    /\ cmode
    /\ cfld # <<>>
    /\ Index(FirstRest, "*") = FirstWidth
    /\ cfld[1].read = FirstWidth + 1
    /\ cfld[1].value = FirstVariable(ctag)

\* C18: every entry of the error list Read returns is a ParseError whose line
\* number is the 1-based number of the line that caused it and whose record name
\* is the tag parsed on that line, an unrecognized prefix included.
C18_LineTagged ==
    (pc = "done" /\ Len(ret) = 1) =>
        \A k \in 1..Len(errors) :
            /\ errors[k].type = "ParseError"
            /\ errors[k].Line \in 1..Len(lines)
            /\ Malformed(lines[errors[k].Line])
            /\ TypeOfLine(lines[errors[k].Line]) \in TagTypes
                  => errors[k].Record = TypeOfLine(lines[errors[k].Line])

\* C19: a second call of Read on the same Reader, which consumes no further
\* line, returns no error of the first call and leaves the message the first
\* call produced as it was.
C19_ReadsIndependent ==
    (pc = "done" /\ Len(ret) >= 2) =>
        /\ Last(ret).err = NilEntry
        /\ Last(ret).file[1] = ret[1].file[1]

\* C20: Read completes on every input: a line of fewer than 6 characters does
\* not abort it and is recorded as one error for that line, and the lines after
\* it are processed.
C20_ShortLineRecorded ==
    /\ pc # "panic"
    /\ (LineDone /\ Len(line) < 6) =>
          /\ errors # <<>>
          /\ Last(errors).type = "ParseError"
          /\ Last(errors).Line = lineNum

\* C21: for each fixed-total-length tag the reader handles (SenderSupplied,
\* TypeSubType, InputMessageAccountabilityData, Amount, BusinessFunctionCode), a
\* line is rejected with a TagWrongLengthError if and only if its length differs
\* from the tag's fixed length L; the tag is then not stored, and the error
\* reports L as the required length and the length of the line as the actual one.
C21_WrongLengthReported ==
    [][(LineStep /\ TypeOfLine(line') \in FixedTypes) =>
        LET L == FixedLength(TypeOfLine(line'))
            new == {k \in (Len(errors) + 1)..Len(errors') :
                        errors'[k].Err.kind = "TagWrongLengthError"}
        IN /\ (new # {}) <=> (Len(line') # L)
           /\ Len(line') # L =>
                 /\ currentFEDWireMessage' = currentFEDWireMessage
                 /\ \A k \in new :
                        errors'[k].Err = NewTagWrongLengthErr(L, Len(line'))]_vars

\* C22: while Read consumes one input stream the aggregate is never reset between
\* lines: every line is consumed into the same message (the loop goes on, the
\* File gets no message, no stored tag is dropped, only the slot of the line's
\* own tag type may change), and the one message Read adds to the File when it
\* ends is the aggregate accumulated over all the lines.
C22_NeverReset ==
    [][/\ LineStep =>
            /\ pc' = "scan"
            /\ File' = File
            /\ currentFEDWireMessage # NewFEDWireMessage =>
                  currentFEDWireMessage' #
                      addCurrentFEDWireMessage([cur |-> currentFEDWireMessage]).cur
            /\ \A type \in DOMAIN currentFEDWireMessage :
                  /\ currentFEDWireMessage[type] # <<>> =>
                        currentFEDWireMessage'[type] # <<>>
                  /\ type # TypeOfLine(line') =>
                        currentFEDWireMessage'[type] = currentFEDWireMessage[type]
       /\ File' # File =>
            /\ File' = Append(File, currentFEDWireMessage)
            /\ pc' = "done"]_vars

\* C23: when Parse returns the TagMinLengthError it has modified nothing: for
\* Charges, LocalInstrument, Originator and FIPaymentMethodToBeneficiary the tag
\* code and every field of the receiver hold after the call what they held
\* before it, and a zero-valued tag stays zero-valued.
C23_MinLengthModifiesNothing ==
    /\ (cpc = "reparsed" /\ cres[1].err.kind = "TagMinLengthError")
          => cres[1].t = ctag.v
    /\ (cpc \in {"parsed", "parsedMangled"} /\ cres[1].err.kind = "TagMinLengthError")
          => cres[1].t = ZeroOf(ctag.type)
    /\ (cpc \in {"parsed", "parsedMangled", "reparsed"}
            /\ Len(cstr) < MinSize(ctag.type))
          => cres[1].err = NewTagMinLengthErr(MinSize(ctag.type), Len(cstr))

\* C23 happens: a record cut off under the minimum size was given to Parse of an
\* Originator that held a tag code and fields, Parse returned the
\* TagMinLengthError and the Originator still holds them
C23_Witness ==
    /\ cpc = "reparsed"
    /\ ctag.type = "Originator"
    /\ ctag.v.Name = "NAME"
    /\ ctag.v.Identifier = "ID"
    /\ Len(cstr) = 8
    /\ cres[1].err = NewTagMinLengthErr(9, 8)
    /\ cres[1].t = ctag.v

\* C24: the entries of the error list Read returns are in the order of the
\* input lines that caused them.  Only the step that processes a line changes
\* the list, it only appends to it, and what it appends carries the number of
\* that line; so the line numbers of the entries never decrease, and the list
\* Read returns is this list.
C24_ErrorsInLineOrder ==
    /\ [][/\ Len(errors') >= Len(errors)
          /\ SubSeq(errors', 1, Len(errors)) = errors
          /\ errors' # errors => LineStep
          /\ LineStep =>
                \A k \in (Len(errors) + 1)..Len(errors') :
                    errors'[k].type = "ParseError" => errors'[k].Line = Len(lines')]_vars
    /\ [](/\ \A j, k \in 1..Len(errors) :
                (j < k /\ errors[j].type = "ParseError" /\ errors[k].type = "ParseError")
                    => errors[j].Line <= errors[k].Line
          /\ (pc = "done" /\ Len(ret) = 1 /\ errors # <<>>) => ret[1].err.list = errors)

\* C24 happens: Read returned after two lines that both failed, and the list it
\* returned holds the error of line 1 before the error of line 2
C24_Witness ==
    /\ pc = "done"
    /\ Len(lines) = 2
    /\ Len(ret[1].err.list) = 2
    /\ ret[1].err.list[1].type = "ParseError"
    /\ ret[1].err.list[1].Line = 1
    /\ ret[1].err.list[1].Record = TypeOfLine(lines[1])
    /\ ret[1].err.list[2].type = "ParseError"
    /\ ret[1].err.list[2].Line = 2
    /\ ret[1].err.list[2].Record = TypeOfLine(lines[2])
    /\ TypeOfLine(lines[1]) # TypeOfLine(lines[2])

\* the values of the variable fields of a tag value, in the order of the record
FieldsOf(t) ==
    CASE t.type = "LocalInstrument" -> <<t.v.LocalInstrumentCode, t.v.ProprietaryCode>>
      [] t.type = "Originator" ->
            <<t.v.Identifier, t.v.Name, t.v.AddressLineOne, t.v.AddressLineTwo,
              t.v.AddressLineThree>>
      [] t.type = "FIPaymentMethodToBeneficiary" -> <<t.v.AdditionalInformation>>

\* every variable field of the tag value is within its maximum width
InWidth(t) ==
    \A k \in 1..Len(FieldsOf(t)) : Len(FieldsOf(t)[k]) <= VariableWidths(t.type)[k]

\* C25: Parse of LocalInstrument, Originator and FIPaymentMethodToBeneficiary is
\* permissive about content.  It returns nil, the TagMinLengthError or the
\* TagMaxLengthError and no charset, enumeration, field-inclusion or tag-code
\* error; on a record of at least the minimum size whose lengths add up it
\* returns nil and holds the first 6 characters as the tag code; and the record
\* String makes of any tag value within the field widths, valid or not, is
\* decoded, when it has the minimum size, without error into the same tag code
\* and field values.
C25_ParsePermissive ==
    (cpc \in {"parsed", "parsedMangled", "reparsed"} /\ ctag.type \in ThreeTags) =>
        /\ cres[1].err.kind \in {"nil", "TagMinLengthError", "TagMaxLengthError"}
        /\ cres[1].err.field = ""
        /\ (/\ Len(cstr) >= MinSize(ctag.type)
            /\ Len(cstr) = FixedEnd(ctag.type)
                             + SumReads(SliceFrom(cstr, FixedEnd(ctag.type)),
                                        VariableWidths(ctag.type)))
              => /\ cres[1].err = Nil
                 /\ cres[1].t.tag = Slice(cstr, 0, 6)
        /\ (cpc = "parsed" /\ InWidth(ctag) /\ Len(cstr) >= MinSize(ctag.type))
              => /\ cres[1].err = Nil
                 /\ cres[1].t = ctag.v

\* C25 happens: a LocalInstrument with a foreign tag code, an unknown
\* LocalInstrumentCode and a ProprietaryCode outside the charset, which Validate
\* rejects, was serialized and decoded without error into the same values
C25_Witness ==
    /\ cpc = "parsed"
    /\ ctag.type = "LocalInstrument"
    /\ ctag.v.tag = "{9999}"
    /\ ctag.v.LocalInstrumentCode = "XXXX"
    /\ ctag.v.ProprietaryCode = NotAlphanumeric
    /\ cval[1] # Nil
    /\ cres[1].err = Nil
    /\ cres[1].t = ctag.v

\* Validate of a tag of the given type
ValidateByType(type, t) ==
    CASE type = "SenderSupplied" -> SenderSuppliedValidate(t)
      [] type \in FixedTypes \ {"SenderSupplied"} -> BodyTagValidate(t, CodeOf(type))
      [] type = "LocalInstrument" -> LocalInstrumentValidate(t)
      [] type = "Charges" -> ChargesValidate(t)
      [] type = "Originator" -> OriginatorValidate(t)
      [] type = "FIPaymentMethodToBeneficiary" -> FIPaymentMethodToBeneficiaryValidate(t)

\* C26: in every reachable state of Read, every tag present in the current
\* aggregate satisfies its own Validate, and its tag code is the type code of
\* its tag type, which is the first 6 characters of a line that was read.
C26_StoredTagsValid ==
    \A type \in TagTypes :
        currentFEDWireMessage[type] # <<>> =>
            /\ ValidateByType(type, currentFEDWireMessage[type][1]) = Nil
            /\ currentFEDWireMessage[type][1].tag = CodeOf(type)
            /\ \E i \in 1..Len(lines) :
                  /\ Len(lines[i]) >= 6
                  /\ Slice(lines[i], 0, 6) = currentFEDWireMessage[type][1].tag

\* C26 happens: two lines of different tag types were read and both tags are in
\* the aggregate, each with the prefix of its line as tag code
C26_Witness ==
    /\ pc = "scan"
    /\ Len(lines) = 2
    /\ TypeOfLine(lines[1]) = "LocalInstrument"
    /\ TypeOfLine(lines[2]) = "Originator"
    /\ currentFEDWireMessage.LocalInstrument # <<>>
    /\ currentFEDWireMessage.Originator # <<>>
    /\ currentFEDWireMessage.LocalInstrument[1].tag = Slice(lines[1], 0, 6)
    /\ currentFEDWireMessage.Originator[1].tag = Slice(lines[2], 0, 6)
    /\ OriginatorValidate(currentFEDWireMessage.Originator[1]) = Nil

UndispatchedTypes == {"MessageDisposition", "OutputMessageAccountabilityData", "ErrorWire"}

\* their tag codes
UndispatchedCodes ==
    {TagMessageDisposition, TagOutputMessageAccountabilityData, TagErrorWire}

\* C28: Read never populates MessageDisposition, OutputMessageAccountabilityData
\* or ErrorWire, in the current aggregate or in a message of the File: the
\* dispatch does not reach their handlers, and a line with one of their prefixes
\* is reported as an invalid tag and changes nothing else.
C28_NeverDispatched ==
    /\ [](\A type \in UndispatchedTypes :
            /\ currentFEDWireMessage[type] = <<>>
            /\ \A i \in 1..Len(File) : File[i][type] = <<>>)
    /\ [][(LineStep /\ Len(line') >= 6 /\ Slice(line', 0, 6) \in UndispatchedCodes) =>
            /\ errors' = Append(errors, Bare(NewErrInvalidTag(Slice(line', 0, 6))))
            /\ currentFEDWireMessage' = currentFEDWireMessage
            /\ tagName' = tagName]_vars

\* C28 happens: Read returned after an OutputMessageAccountabilityData line and
\* an ErrorWire line, both were reported as invalid tags and the message in the
\* File holds neither
C28_Witness ==
    /\ pc = "done"
    /\ Len(lines) = 2
    /\ Slice(lines[1], 0, 6) = TagOutputMessageAccountabilityData
    /\ Slice(lines[2], 0, 6) = TagErrorWire
    /\ errors = <<Bare(NewErrInvalidTag(TagOutputMessageAccountabilityData)),
                  Bare(NewErrInvalidTag(TagErrorWire))>>
    /\ File[1].OutputMessageAccountabilityData = <<>>
    /\ File[1].ErrorWire = <<>>

\* C30: FIPaymentMethodToBeneficiary.Validate returns a field-inclusion error
\* naming PaymentMethod if and only if PaymentMethod is not "CHECK", whatever the
\* tag code and AdditionalInformation are, since this test comes first; and the
\* tag NewFIPaymentMethodToBeneficiary returns has PaymentMethod "CHECK" and the
\* type code, and passes Validate.
C30_PaymentMethodCheck ==
    /\ NewFIPaymentMethodToBeneficiary.PaymentMethod = "CHECK"
    /\ NewFIPaymentMethodToBeneficiary.tag = TagFIPaymentMethodToBeneficiary
    /\ (cval # <<>> /\ ctag.type = "FIPaymentMethodToBeneficiary") =>
          /\ (cval[1].kind = ErrFieldInclusion) <=> (ctag.v.PaymentMethod # "CHECK")
          /\ ctag.v.PaymentMethod # "CHECK" =>
                cval[1] = fieldError("PaymentMethod", ErrFieldInclusion,
                                     ctag.v.PaymentMethod)
          /\ ctag.v = NewFIPaymentMethodToBeneficiary => cval[1] = Nil

\* C30 happens: Validate ran on a tag with a foreign tag code, PaymentMethod
\* "CASH" and an AdditionalInformation outside the charset, and returned the
\* field-inclusion error of PaymentMethod
C30_Witness ==
    /\ cval # <<>>
    /\ ctag.type = "FIPaymentMethodToBeneficiary"
    /\ ctag.v.tag = "{9999}"
    /\ ctag.v.PaymentMethod = "CASH"
    /\ ctag.v.AdditionalInformation = NotAlphanumeric
    /\ cval[1] = fieldError("PaymentMethod", ErrFieldInclusion, "CASH")

\* the names of the variable fields in the order Parse decodes them
FieldNames(type) ==
    CASE type = "LocalInstrument" -> <<"LocalInstrumentCode", "ProprietaryCode">>
      [] type = "Originator" ->
            <<"Identifier", "Name", "AddressLineOne", "AddressLineTwo", "AddressLineThree">>

\* C29: when the decode of a variable field fails inside Parse, the error Parse
\* returns is wrapped with the name of the field that was being decoded, for
\* LocalInstrument LocalInstrumentCode and ProprietaryCode, for Originator
\* Identifier, Name, AddressLineOne, AddressLineTwo and AddressLineThree; and
\* neither that field nor a later one is decoded: they hold what they held.
C29_DecodeFailureNamed ==
    cpc = "parsedFault" =>
        /\ cres[1].err.field = FieldNames(ctag.type)[cres[1].fault]
        /\ \A k \in cres[1].fault..NumVariable(ctag.type) :
              cres[1].t[FieldNames(ctag.type)[k]] = FullOf(ctag.type)[FieldNames(ctag.type)[k]]

====
